---- MODULE Spec2Model ----
(***************************************************************************)
(* A model of package log (src/log.go): a leveled logger with atomically   *)
(* replaced configuration fields, a process-wide buffer pool and a         *)
(* mutex-protected sink.                                                   *)
(*                                                                         *)
(* Strings and byte slices are sequences of one-character strings.         *)
(***************************************************************************)
EXTENDS Integers, Sequences, FiniteSets, TLC

\* ------------------------------------------------------------------------
\* Bounds of the model
\* ------------------------------------------------------------------------
\* number of public calls the threads make, all together
MaxCalls == 2
\* number of buffers the pool retains (sync.Pool may drop any item)
MaxPool == 1

\* the threads calling into the package, and the loggers they share
Threads == {1, 2}
LoggerIds == {1, 2}

\* ------------------------------------------------------------------------
\* Program constants (src/log.go:20-36)
\* ------------------------------------------------------------------------
DEBUG == 0
INFO == 1
ERROR == 2

Ldate == 1
Ltime == 2
Lmicroseconds == 4
Llongfile == 8
Lshortfile == 16
LUTC == 32
LstdFlags == Ldate + Ltime

\* the capacity above which putBuffer drops the backing array (64<<10)
PoolCapLimit == 65536

\* ------------------------------------------------------------------------
\* Integer helpers
\* ------------------------------------------------------------------------
RECURSIVE Pow(_, _)
Pow(b, e) == IF e = 0 THEN 1 ELSE b * Pow(b, e - 1)

\* flag & bit # 0, for a single bit (a power of two)
HasBit(flag, bit) == (flag \div bit) % 2 = 1

\* flag & (a|b|...) # 0
HasAny(flag, bits) == \E b \in bits : HasBit(flag, b)

\* the conversion int32(x) of a Go int keeps the low 32 bits; the integers
\* TLC computes with are the int32 range, where it preserves the value
ToInt32(x) == x

\* the conversion int(x) of an int32: value preserving
FromInt32(x) == x

\* the conversion Level(x) of an int32 (Level is uint8): wraps modulo 2^8
ToLevel(x) == x % 256

\* ------------------------------------------------------------------------
\* Strings
\* ------------------------------------------------------------------------
NL == "\n"
Digits == <<"0", "1", "2", "3", "4", "5", "6", "7", "8", "9">>

\* byte('0' + d)
DigitChar(d) == Digits[d + 1]

Last(s) == s[Len(s)]

\* s[i:] with Go's 0-based index
From(s, i) == SubSeq(s, i + 1, Len(s))

\* ------------------------------------------------------------------------
\* itoa (src/log.go:64-76)
\* ------------------------------------------------------------------------
\* the loop of itoa with the width test off by one (wid > 0)
RECURSIVE itoaLoop_wide(_, _, _)
itoaLoop_wide(b, i, wid) ==
    IF i >= 10 \/ wid > 0
      THEN LET q == i \div 10
           IN  itoaLoop_wide(<<DigitChar(i - q * 10)>> \o b, q, wid - 1)
      ELSE <<DigitChar(i)>> \o b

\* The loop of itoa. b is b[bp+1:], the digits produced so far.
RECURSIVE itoaLoop(_, _, _)
itoaLoop(b, i, wid) ==
    IF i >= 10 \/ wid > 1
      THEN LET q == i \div 10
           IN  itoaLoop(<<DigitChar(i - q * 10)>> \o b, q, wid - 1)
      ELSE <<DigitChar(i)>> \o b

itoa(buf, i, wid) == buf \o itoaLoop(<<>>, i, wid)

\* ------------------------------------------------------------------------
\* time.Time, as far as formatHeader reads it: the calendar and clock
\* fields in the value's own location (loc) and in UTC (utc).
\* ------------------------------------------------------------------------
\* t.UTC()
UTC(t) == [loc |-> t.utc, utc |-> t.utc]
\* t.Date()
Date(t) == <<t.loc.year, t.loc.month, t.loc.day>>
\* t.Clock()
Clock(t) == <<t.loc.hour, t.loc.min, t.loc.sec>>
\* t.Nanosecond()
Nanosecond(t) == t.loc.nsec

\* ------------------------------------------------------------------------
\* formatHeader (src/log.go:78-126)
\* ------------------------------------------------------------------------
\* the date part, lines 86-94
fmtDate(buf, t, flag) ==
    IF HasBit(flag, Ldate)
      THEN LET d  == Date(t)
               b1 == itoa(buf, d[1], 4) \o <<"/">>
               b2 == itoa(b1, d[2], 2) \o <<"/">>
           IN  itoa(b2, d[3], 2) \o <<" ">>
      ELSE buf

\* the clock part, lines 95-107
fmtClock(buf, t, flag) ==
    IF HasAny(flag, {Ltime, Lmicroseconds})
      THEN LET c  == Clock(t)
               b1 == itoa(buf, c[1], 2) \o <<":">>
               b2 == itoa(b1, c[2], 2) \o <<":">>
               b3 == itoa(b2, c[3], 2)
               b4 == IF HasBit(flag, Lmicroseconds)
                       THEN itoa(b3 \o <<".">>, Nanosecond(t) \div 1000, 6)
                       ELSE b3
           IN  b4 \o <<" ">>
      ELSE buf

\* the loop of lines 113-118: i counts down from len(file)-1 while i > 0
RECURSIVE shortLoop(_, _)
shortLoop(file, i) ==
    IF i > 0
      THEN IF file[i + 1] = "/" THEN From(file, i + 1) ELSE shortLoop(file, i - 1)
      ELSE file

\* lines 111-120: the file name rendered under flag
shortFile(file, flag) ==
    IF HasBit(flag, Lshortfile) THEN shortLoop(file, Len(file) - 1) ELSE file

\* the caller part, lines 110-125
fmtCaller(buf, flag, file, line) ==
    IF HasAny(flag, {Lshortfile, Llongfile})
      THEN itoa(buf \o shortFile(file, flag) \o <<":">>, line, -1) \o <<":", " ">>
      ELSE buf

formatHeader(buf, t, prefix, flag, levelStr, file, line) ==
    LET b0 == buf \o prefix \o levelStr
        b1 == IF HasAny(flag, {Ldate, Ltime, Lmicroseconds})
                THEN LET tt == IF HasBit(flag, LUTC) THEN UTC(t) ELSE t
                     IN  fmtClock(fmtDate(b0, tt, flag), tt, flag)
                ELSE b0
    IN  fmtCaller(b1, flag, file, line)

\* ------------------------------------------------------------------------
\* The level tag, src/log.go:178-188
\* ------------------------------------------------------------------------
levelString(level) ==
    CASE level = DEBUG -> <<"[", "D", "E", "B", "U", "G", "]", " ">>
      [] level = INFO  -> <<"[", "I", "N", "F", "O", "]", " ", " ">>
      [] level = ERROR -> <<"[", "E", "R", "R", "O", "R", "]", " ">>
      [] OTHER         -> <<"[", "?", "?", "?", "?", "?", "]", " ">>

\* ------------------------------------------------------------------------
\* fmt.Appendln(b, v...) for string operands, as called at lines 206, 212,
\* 218: the operands separated by single spaces, then a newline.
\* ------------------------------------------------------------------------
RECURSIVE joinArgs(_, _)
joinArgs(v, n) ==
    IF n > Len(v) THEN <<>>
    ELSE (IF n > 1 THEN <<" ">> ELSE <<>>) \o v[n] \o joinArgs(v, n + 1)

Appendln(b, v) == b \o joinArgs(v, 1) \o <<NL>>

\* lines 194-196 without the test: a newline is always appended
ensureNewline_always(b) == b \o <<NL>>

\* lines 194-196: append a newline unless the buffer already ends with one
ensureNewline(b) ==
    IF Len(b) = 0 \/ Last(b) # NL THEN b \o <<NL>> ELSE b

\* lines 192-196 on the bytes of the buffer
render(b, t, prefix, flag, level, file, line, v) ==
    ensureNewline(Appendln(formatHeader(b, t, prefix, flag, levelString(level), file, line), v))

\* ------------------------------------------------------------------------
\* The buffer pool (src/log.go:128-141).  A buffer is the slice a pooled
\* pointer refers to: its bytes b and the capacity cap of its array.
\* ------------------------------------------------------------------------
\* bufferPool.New, line 128
newBuffer == [b |-> <<>>, cap |-> 0]

\* getBuffer without the truncation of line 132
getBuffer_asLeft(p) == p

\* line 132: *p = (*p)[:0]
getBuffer(p) == [p EXCEPT !.b = <<>>]

\* lines 137-139 with the comparison >= instead of >
putBuffer_atLimit(p) == IF p.cap >= PoolCapLimit THEN [b |-> <<>>, cap |-> 0] ELSE p

\* lines 137-139: the slice that goes back to the pool
putBuffer(p) == IF p.cap > PoolCapLimit THEN [b |-> <<>>, cap |-> 0] ELSE p

\* append's growth of the array: kept when the bytes fit, else grown to fit
growCap(cap, need) == IF need <= cap THEN cap ELSE need

\* ------------------------------------------------------------------------
\* Conditions of output (src/log.go:143-150) and SetOutput (line 61)
\* ------------------------------------------------------------------------
\* the comparison of line 144 the wrong way round
belowMinLevel_reversed(level, min) == min < ToInt32(level)

\* line 144: int32(level) < l.minLevel.Load()
belowMinLevel(level, min) == ToInt32(level) < min

\* line 61: w == io.Discard
Discard == "Discard"
\* a hint that is never set
isDiscardSink_never(w) == FALSE
isDiscardSink(w) == w = Discard

\* lines 159-176, with pc = 0 as Debug, Info and Error pass it: the file
\* and line of a caller c = [file, line, ok] resolved by runtime.Caller
callerOf(flag, c) ==
    IF HasAny(flag, {Lshortfile, Llongfile})
      THEN IF c.ok THEN [file |-> c.file, line |-> c.line, resolved |-> TRUE]
                   ELSE [file |-> <<"?", "?", "?">>, line |-> 0, resolved |-> TRUE]
      ELSE [file |-> <<>>, line |-> 0, resolved |-> FALSE]

\* ------------------------------------------------------------------------
\* The atomic fields (src/log.go:222-247)
\* ------------------------------------------------------------------------
\* a store that keeps only the low four bits of the flags
storeFlags_low4(flag) == ToInt32(flag % 16)
\* line 227: l.flag.Store(int32(flag))
storeFlags(flag) == ToInt32(flag)
\* line 223: int(l.flag.Load())
loadFlags(f) == FromInt32(f)
\* line 238: l.prefix.Store(&prefix)
NilPrefix == [nil |-> TRUE, s |-> <<>>]
storePrefix(prefix) == [nil |-> FALSE, s |-> prefix]
\* lines 231-234 with the nil test inverted
loadPrefix_inverted(p) == IF p.nil THEN p.s ELSE <<>>
\* lines 231-234
loadPrefix(p) == IF ~p.nil THEN p.s ELSE <<>>
\* line 246: l.minLevel.Store(int32(level))
storeLevel(level) == ToInt32(level)
\* line 242: Level(l.minLevel.Load())
loadLevel(m) == ToLevel(m)

\* ------------------------------------------------------------------------
\* The values callers and the environment supply
\* ------------------------------------------------------------------------
\* instants of the clock: local fields, and the same instant in UTC
T1 == [loc |-> [year |-> 2024, month |-> 3, day |-> 5, hour |-> 8, min |-> 9,
                sec |-> 7, nsec |-> 42000],
       utc |-> [year |-> 2024, month |-> 3, day |-> 5, hour |-> 0, min |-> 9,
                sec |-> 7, nsec |-> 42000]]
T2 == [loc |-> [year |-> 2024, month |-> 1, day |-> 2, hour |-> 3, min |-> 4,
                sec |-> 5, nsec |-> 123456789],
       utc |-> [year |-> 2024, month |-> 1, day |-> 1, hour |-> 19, min |-> 4,
                sec |-> 5, nsec |-> 123456789]]
T3 == [loc |-> [year |-> 987, month |-> 12, day |-> 31, hour |-> 23, min |-> 59,
                sec |-> 59, nsec |-> 999],
       utc |-> [year |-> 988, month |-> 1, day |-> 1, hour |-> 4, min |-> 59,
                sec |-> 59, nsec |-> 999]]

\* caller files: "/a/b/c.go", "c.go", "/c.go", "a/"
FileDeep == <<"/", "a", "/", "b", "/", "c", ".", "g", "o">>
FileBare == <<"c", ".", "g", "o">>
FileRoot == <<"/", "c", ".", "g", "o">>
FileDir == <<"a", "/">>

\* what runtime.Caller reports
CallerDeep == [file |-> FileDeep, line |-> 42, ok |-> TRUE]
CallerBare == [file |-> FileBare, line |-> 7, ok |-> TRUE]
CallerRoot == [file |-> FileRoot, line |-> 120, ok |-> TRUE]
CallerDir == [file |-> FileDir, line |-> 0, ok |-> TRUE]
CallerUnknown == [file |-> <<>>, line |-> 0, ok |-> FALSE]

\* arguments of Debug, Info and Error: "hi"; "hi\n"; "a", "b"; none
MsgHi == <<<<"h", "i">>>>
MsgHiNL == <<<<"h", "i", NL>>>>
MsgTwo == <<<<"a">>, <<"b">>>>
MsgNone == <<>>

PrefixNone == <<>>
PrefixApp == <<"A", "P", "P", " ">>

\* the concurrent specification: several threads, few values
SpecInputs ==
    [threads |-> {1, 2}, loggers |-> {1}, own |-> FALSE, caps |-> {}, maxCalls |-> MaxCalls,
     newArgs |-> {<<"B", PrefixApp, LstdFlags, INFO>>},
     sinks |-> {"B", Discard},
     prefixes |-> {PrefixNone},
     flags |-> {Lshortfile},
     levels |-> {ERROR},
     msgs |-> {MsgHi},
     times |-> {T1},
     callers |-> {CallerDeep}]

\* the formatting specification: one thread making one call, on a logger
\* constructed with any flags, and any message, instant and caller
FmtInputs ==
    [threads |-> {1}, loggers |-> {1}, own |-> FALSE, caps |-> {}, maxCalls |-> 1,
     newArgs |-> {"A"} \X {PrefixNone, PrefixApp} \X (0..63) \X {DEBUG},
     sinks |-> {"A", Discard},
     prefixes |-> {PrefixNone},
     flags |-> {LstdFlags},
     levels |-> {INFO},
     msgs |-> {MsgHi, MsgHiNL, MsgTwo, MsgNone},
     times |-> {T1, T2, T3},
     callers |-> {CallerDeep, CallerBare, CallerRoot, CallerDir, CallerUnknown}]

\* the configuration specification: two threads, more values for the setters
CfgInputs ==
    [threads |-> {1, 2}, loggers |-> {1}, own |-> FALSE, caps |-> {}, maxCalls |-> MaxCalls,
     newArgs |-> {<<"A", PrefixApp, LstdFlags, INFO>>},
     sinks |-> {"A", "B", Discard},
     prefixes |-> {PrefixNone, PrefixApp},
     flags |-> {0, Ldate, Lmicroseconds, Lshortfile, LUTC, 63},
     levels |-> {DEBUG, ERROR, 3, 255},
     msgs |-> {MsgHi},
     times |-> {T2},
     callers |-> {CallerBare}]

\* the two-logger specification: each logger is constructed on sink A or on
\* sink B, with its own prefix; SetOutput installs the discard sink; each
\* thread calls the logger of its own number (own)
TwoInputs ==
    [threads |-> {1, 2}, loggers |-> {1, 2}, own |-> TRUE, caps |-> {}, maxCalls |-> MaxCalls,
     newArgs |-> {<<"A", PrefixApp, 0, DEBUG>>, <<"B", PrefixNone, 0, DEBUG>>},
     sinks |-> {Discard},
     prefixes |-> {PrefixNone},
     flags |-> {Lshortfile},
     levels |-> {ERROR},
     msgs |-> {MsgTwo},
     times |-> {T1},
     callers |-> {CallerBare}]

\* the specification with fairness: the values of the concurrent one, a
\* single sink to install
LiveInputs == [SpecInputs EXCEPT !.sinks = {"B"}]

\* the pool specification: append may give a grown buffer one of the
\* capacities around the limit of putBuffer
PoolInputs ==
    [SpecInputs EXCEPT !.caps = {PoolCapLimit - 1, PoolCapLimit, PoolCapLimit + 1},
                       !.sinks = {"A"},
                       !.newArgs = {<<"A", PrefixNone, 0, DEBUG>>}]

\* the inputs of the specification named n
InputsOf(n) ==
    CASE n = "Spec" -> SpecInputs
      [] n = "SpecFmt" -> FmtInputs
      [] n = "SpecCfg" -> CfgInputs
      [] n = "SpecTwo" -> TwoInputs
      [] n = "SpecLive" -> LiveInputs
      [] n = "SpecPool" -> PoolInputs

\* ------------------------------------------------------------------------
\* State
\* ------------------------------------------------------------------------
VARIABLES
    out,         \* Logger.out of each logger                  (line 40)
    outMu,       \* Logger.outMu: 0 when free, else its holder (line 39)
    prefix,      \* Logger.prefix, an atomic pointer           (line 42)
    flag,        \* Logger.flag, an atomic int32               (line 43)
    isDiscard,   \* Logger.isDiscard, an atomic bool           (line 44)
    minLevel,    \* Logger.minLevel, an atomic int32           (line 45)
    bufferPool,  \* the buffers held by the pool               (line 128)
    pc,          \* where each thread is in its current call
    fr,          \* the frame of each thread's current (or last) call
    calls,       \* the number of calls each thread has made
    sinkLog,     \* the Write calls the sinks have served
    passed,      \* the calls <<thread, number>> of output that passed both gates
    hist,        \* per logger and field, the argument of the latest store
    outVer,      \* per logger, the number of stores to out
    outDone,     \* per logger, the number of stores to out whose SetOutput has returned
    inputs       \* the name of the specification, which fixes the values callers
                 \* and the environment supply

logger == <<out, outMu, prefix, flag, isDiscard, minLevel>>
config == <<out, prefix, flag, isDiscard, minLevel>>
vars == <<out, outMu, prefix, flag, isDiscard, minLevel, bufferPool, pc, fr,
          calls, sinkLog, passed, hist, outVer, outDone, inputs>>

Loggers == DOMAIN out

\* the values callers and the environment supply
Inputs == InputsOf(inputs)

\* the value a function without result hands to its caller
NoValue == "void"
\* the nil error and the error of a failed Write
NilError == "nil"
WriteError == "EIO"

\* sinks whose Write can fail
FlakySinks == {"B"}

ZeroClock == [year |-> 0, month |-> 0, day |-> 0, hour |-> 0, min |-> 0, sec |-> 0, nsec |-> 0]
ZeroTime == [loc |-> ZeroClock, utc |-> ZeroClock]

EmitterOps == {"Debug", "Info", "Error"}
\* positions of output after both gates have been passed
PassedPcs == {"o_prefix", "o_flag", "o_get", "o_render", "o_lock", "o_write",
              "o_wret", "o_unlock", "o_put"}
EmitterPcs == {"o_disc"} \cup PassedPcs
SetOutputPcs == {"so_lock", "so_out", "so_disc", "so_unlock"}
WriterPcs == {"w_lock", "w_read", "w_unlock"}

\* the frame of a call before it has done anything
NoFrame ==
    [op |-> "none", l |-> 0, seq |-> 0,
     \* arguments
     level |-> 0, v |-> <<>>, w |-> "",
     \* locals of output
     minRead |-> -1, discRead |-> FALSE, now |-> ZeroTime, prefix |-> <<>>, flag |-> 0,
     file |-> <<>>, line |-> 0, buf |-> newBuffer, err |-> "unset",
     \* the value handed to the caller, once pc is "ret"
     ret |-> NoValue,
     \* what the call has done so far
     resolved |-> FALSE, acquired |-> 0, released |-> 0, formatted |-> FALSE,
     locks |-> 0, nwrites |-> 0, sink |-> "",
     \* the logger when the call started
     quiet0 |-> FALSE, out0 |-> "", done0 |-> 0,
     \* a getter: the store it read (of out) and the argument of that store
     rv |-> 0, seen |-> NoValue,
     \* SetOutput calls started since then
     sinkSetSince |-> FALSE, discardSetSince |-> FALSE,
     \* a call whose Write failed had returned when the call started
     afterFail |-> FALSE]

\* no SetOutput call on logger l is in flight
Quiet(l) == \A u \in Threads : ~(pc[u] \in SetOutputPcs /\ fr[u].l = l)

\* the frame of a call thread t starts on logger l
StartFrame(t, l, op) ==
    [NoFrame EXCEPT !.op = op, !.l = l, !.seq = calls[t] + 1,
                    !.quiet0 = Quiet(l), !.out0 = out[l], !.done0 = outDone[l],
                    !.afterFail = \E u \in Threads :
                                     pc[u] = "ret" /\ fr[u].err = WriteError]

RECURSIVE SumOver(_, _)
SumOver(f, S) ==
    IF S = {} THEN 0
    ELSE LET x == CHOOSE y \in S : TRUE IN f[x] + SumOver(f, S \ {x})

\* the number of calls made so far
TotalCalls == SumOver(calls, Threads)

CanCall(t, l) ==
    /\ t \in Inputs.threads
    /\ l \in Loggers
    /\ Inputs.own => l = t
    /\ pc[t] \in {"idle", "ret"}
    /\ TotalCalls < Inputs.maxCalls

\* ------------------------------------------------------------------------
\* New (src/log.go:48-55): the fields after SetOutput, SetPrefix, SetFlags
\* and SetLevel have run on a zero Logger; a = <<out, prefix, flag, level>>
\* ------------------------------------------------------------------------
InitWith(n) ==
    LET in == InputsOf(n)
    IN  /\ inputs = n
        /\ \E a \in [in.loggers -> in.newArgs] :
            /\ out = [l \in in.loggers |-> a[l][1]]
            /\ isDiscard = [l \in in.loggers |-> isDiscardSink(a[l][1])]
            /\ prefix = [l \in in.loggers |-> storePrefix(a[l][2])]
            /\ flag = [l \in in.loggers |-> storeFlags(a[l][3])]
            /\ minLevel = [l \in in.loggers |-> storeLevel(a[l][4])]
            /\ hist = [l \in in.loggers |->
                         [out |-> a[l][1], prefix |-> a[l][2],
                          flag |-> a[l][3], level |-> a[l][4]]]
        /\ outMu = [l \in in.loggers |-> 0]
        /\ outVer = [l \in in.loggers |-> 1]
        /\ outDone = [l \in in.loggers |-> 1]
        /\ bufferPool = {}
        /\ pc = [t \in Threads |-> "idle"]
        /\ fr = [t \in Threads |-> NoFrame]
        /\ calls = [t \in Threads |-> 0]
        /\ sinkLog = {}
        /\ passed = {}

\* ------------------------------------------------------------------------
\* output (src/log.go:143-202), one action per access to shared state
\* ------------------------------------------------------------------------
\* the call returns err to its caller: the wrappers Debug, Info and Error
\* (lines 204-220) have no result and drop the error of output
emitterResult(err) == NoValue

Return(f, err) == [f EXCEPT !.err = err, !.ret = emitterResult(err)]

\* lines 144-146: the call starts and loads minLevel
output(t, l, op, level, v) ==
    /\ CanCall(t, l)
    /\ LET f == [StartFrame(t, l, op) EXCEPT !.level = level, !.v = v,
                                             !.minRead = minLevel[l]]
       IN  IF belowMinLevel(level, minLevel[l])
             THEN /\ fr' = [fr EXCEPT ![t] = Return(f, NilError)]
                  /\ pc' = [pc EXCEPT ![t] = "ret"]
             ELSE /\ fr' = [fr EXCEPT ![t] = f]
                  /\ pc' = [pc EXCEPT ![t] = "o_disc"]
    /\ calls' = [calls EXCEPT ![t] = @ + 1]
    /\ UNCHANGED <<logger, bufferPool, sinkLog, passed, hist, outVer, outDone, inputs>>

\* lines 204-208
Debug(t, l) == \E v \in Inputs.msgs : output(t, l, "Debug", DEBUG, v)
\* lines 210-214
Info(t, l) == \E v \in Inputs.msgs : output(t, l, "Info", INFO, v)
\* lines 216-220
Error(t, l) == \E v \in Inputs.msgs : output(t, l, "Error", ERROR, v)

\* lines 148-152: load the discard hint; read the clock when it is false
o_disc(t) ==
    /\ pc[t] = "o_disc"
    /\ IF isDiscard[fr[t].l]
         THEN /\ fr' = [fr EXCEPT ![t] = Return([@ EXCEPT !.discRead = TRUE], NilError)]
              /\ pc' = [pc EXCEPT ![t] = "ret"]
              /\ UNCHANGED passed
         ELSE /\ \E now \in Inputs.times : fr' = [fr EXCEPT ![t].now = now]
              /\ pc' = [pc EXCEPT ![t] = "o_prefix"]
              /\ passed' = passed \cup {<<t, fr[t].seq>>}
    /\ UNCHANGED <<logger, bufferPool, calls, sinkLog, hist, outVer, outDone, inputs>>

\* line 154: prefix := l.Prefix()
o_prefix(t) ==
    /\ pc[t] = "o_prefix"
    /\ fr' = [fr EXCEPT ![t].prefix = loadPrefix(prefix[fr[t].l])]
    /\ pc' = [pc EXCEPT ![t] = "o_flag"]
    /\ UNCHANGED <<logger, bufferPool, calls, sinkLog, passed, hist, outVer, outDone, inputs>>

\* lines 155-188: flag := l.Flags(), then the caller and the level tag
o_flag(t) ==
    /\ pc[t] = "o_flag"
    /\ LET fl == loadFlags(flag[fr[t].l])
       IN  \E c \in Inputs.callers :
             LET r == callerOf(fl, c)
             IN  fr' = [fr EXCEPT ![t].flag = fl, ![t].file = r.file,
                                  ![t].line = r.line, ![t].resolved = r.resolved]
    /\ pc' = [pc EXCEPT ![t] = "o_get"]
    /\ UNCHANGED <<logger, bufferPool, calls, sinkLog, passed, hist, outVer, outDone, inputs>>

\* output taking the lock before line 190 already, ahead of the rendering
o_get_locked(t) ==
    /\ pc[t] = "o_get"
    /\ outMu[fr[t].l] = 0
    /\ outMu' = [outMu EXCEPT ![fr[t].l] = t]
    /\ \E p \in bufferPool \cup {newBuffer} :
        /\ fr' = [fr EXCEPT ![t].buf = getBuffer(p), ![t].acquired = @ + 1]
        /\ bufferPool' = bufferPool \ {p}
    /\ pc' = [pc EXCEPT ![t] = "o_render"]
    /\ UNCHANGED <<config, calls, sinkLog, passed, hist, outVer, outDone, inputs>>

\* line 190: buf := getBuffer(); the pool hands out one of its buffers or
\* a new one
o_get(t) ==
    /\ pc[t] = "o_get"
    /\ \E p \in bufferPool \cup {newBuffer} :
        /\ fr' = [fr EXCEPT ![t].buf = getBuffer(p), ![t].acquired = @ + 1]
        /\ bufferPool' = bufferPool \ {p}
    /\ pc' = [pc EXCEPT ![t] = "o_render"]
    /\ UNCHANGED <<logger, calls, sinkLog, passed, hist, outVer, outDone, inputs>>

\* output calling l.Flags() a second time for formatHeader, in place of the
\* value read at line 155
o_render_reread(t) ==
    /\ pc[t] = "o_render"
    /\ LET f == fr[t]
           b == render(f.buf.b, f.now, f.prefix, loadFlags(flag[f.l]), f.level,
                       f.file, f.line, f.v)
       IN  fr' = [fr EXCEPT ![t].buf = [b |-> b, cap |-> growCap(f.buf.cap, Len(b))],
                            ![t].formatted = TRUE]
    /\ pc' = [pc EXCEPT ![t] = "o_lock"]
    /\ UNCHANGED <<logger, bufferPool, calls, sinkLog, passed, hist, outVer, outDone, inputs>>

\* the capacities append can leave the buffer with: the old one when the
\* bytes fit, else the length needed or any larger capacity it chooses
grownCaps(cap, need) ==
    {growCap(cap, need)} \cup {c \in Inputs.caps : need > cap /\ c >= need}

\* lines 192-196: the header, the message and the newline go into the buffer
o_render(t) ==
    /\ pc[t] = "o_render"
    /\ LET f == fr[t]
           b == render(f.buf.b, f.now, f.prefix, f.flag, f.level, f.file, f.line, f.v)
       IN  \E c \in grownCaps(f.buf.cap, Len(b)) :
             fr' = [fr EXCEPT ![t].buf = [b |-> b, cap |-> c], ![t].formatted = TRUE]
    /\ pc' = [pc EXCEPT ![t] = "o_lock"]
    /\ UNCHANGED <<logger, bufferPool, calls, sinkLog, passed, hist, outVer, outDone, inputs>>

\* output without line 198: the write is entered whoever holds the lock
o_lock_absent(t) ==
    /\ pc[t] = "o_lock"
    /\ fr' = [fr EXCEPT ![t].locks = @ + 1]
    /\ pc' = [pc EXCEPT ![t] = "o_write"]
    /\ UNCHANGED <<logger, bufferPool, calls, sinkLog, passed, hist, outVer, outDone, inputs>>

\* line 198: l.outMu.Lock()
o_lock(t) ==
    /\ pc[t] = "o_lock"
    /\ outMu[fr[t].l] = 0
    /\ outMu' = [outMu EXCEPT ![fr[t].l] = t]
    /\ fr' = [fr EXCEPT ![t].locks = @ + 1]
    /\ pc' = [pc EXCEPT ![t] = "o_write"]
    /\ UNCHANGED <<config, bufferPool, calls, sinkLog, passed, hist, outVer, outDone, inputs>>

\* output writing to the sink it found installed when it started, read
\* without the lock
o_write_stale(t) ==
    /\ pc[t] = "o_write"
    /\ fr' = [fr EXCEPT ![t].sink = fr[t].out0, ![t].nwrites = @ + 1]
    /\ pc' = [pc EXCEPT ![t] = "o_wret"]
    /\ UNCHANGED <<logger, bufferPool, calls, sinkLog, passed, hist, outVer, outDone, inputs>>

\* line 200: l.out.Write(*buf) is called on the sink installed now
o_write(t) ==
    /\ pc[t] = "o_write"
    /\ fr' = [fr EXCEPT ![t].sink = out[fr[t].l], ![t].nwrites = @ + 1]
    /\ pc' = [pc EXCEPT ![t] = "o_wret"]
    /\ UNCHANGED <<logger, bufferPool, calls, sinkLog, passed, hist, outVer, outDone, inputs>>

\* bufferPool.Put(p), line 140: the pool keeps the buffer while it has room
poolPut(pool, p) == IF Cardinality(pool) < MaxPool THEN pool \cup {p} ELSE pool

\* the deferred calls in the wrong order: putBuffer runs as soon as Write
\* has returned, before the Unlock
o_wret_putFirst(t) ==
    /\ pc[t] = "o_wret"
    /\ \E ok \in (IF fr[t].sink \in FlakySinks THEN {TRUE, FALSE} ELSE {TRUE}) :
        /\ sinkLog' = sinkLog \cup {[l |-> fr[t].l, sink |-> fr[t].sink, by |-> t,
                                      seq |-> fr[t].seq, data |-> fr[t].buf.b, ok |-> ok]}
        /\ fr' = [fr EXCEPT ![t].err = IF ok THEN NilError ELSE WriteError,
                             ![t].released = @ + 1]
    /\ bufferPool' = poolPut(bufferPool, putBuffer(fr[t].buf))
    /\ pc' = [pc EXCEPT ![t] = "o_unlock"]
    /\ UNCHANGED <<logger, calls, passed, hist, outVer, outDone, inputs>>

\* line 200: Write returns, with an error when the sink failed
o_wret(t) ==
    /\ pc[t] = "o_wret"
    /\ \E ok \in (IF fr[t].sink \in FlakySinks THEN {TRUE, FALSE} ELSE {TRUE}) :
        /\ sinkLog' = sinkLog \cup {[l |-> fr[t].l, sink |-> fr[t].sink, by |-> t,
                                      seq |-> fr[t].seq, data |-> fr[t].buf.b, ok |-> ok]}
        /\ fr' = [fr EXCEPT ![t].err = IF ok THEN NilError ELSE WriteError]
    /\ pc' = [pc EXCEPT ![t] = "o_unlock"]
    /\ UNCHANGED <<logger, bufferPool, calls, passed, hist, outVer, outDone, inputs>>

\* an Unlock that is not deferred and is skipped when Write failed
o_unlock_onSuccess(t) ==
    /\ pc[t] = "o_unlock"
    /\ outMu' = IF fr[t].err = NilError THEN [outMu EXCEPT ![fr[t].l] = 0] ELSE outMu
    /\ pc' = [pc EXCEPT ![t] = "o_put"]
    /\ UNCHANGED <<config, bufferPool, fr, calls, sinkLog, passed, hist, outVer, outDone, inputs>>

\* line 199, deferred: l.outMu.Unlock()
o_unlock(t) ==
    /\ pc[t] = "o_unlock"
    /\ outMu' = [outMu EXCEPT ![fr[t].l] = 0]
    /\ pc' = [pc EXCEPT ![t] = "o_put"]
    /\ UNCHANGED <<config, bufferPool, fr, calls, sinkLog, passed, hist, outVer, outDone, inputs>>

\* putBuffer called after a successful Write only, not deferred
o_put_onSuccess(t) ==
    /\ pc[t] = "o_put"
    /\ IF fr[t].err = NilError
         THEN /\ bufferPool' = poolPut(bufferPool, putBuffer(fr[t].buf))
              /\ fr' = [fr EXCEPT ![t] = Return([@ EXCEPT !.released = @ + 1], @.err)]
         ELSE /\ bufferPool' = bufferPool
              /\ fr' = [fr EXCEPT ![t] = Return(@, @.err)]
    /\ pc' = [pc EXCEPT ![t] = "ret"]
    /\ UNCHANGED <<logger, calls, sinkLog, passed, hist, outVer, outDone, inputs>>

\* line 191, deferred: putBuffer(buf); then the call returns
o_put(t) ==
    /\ pc[t] = "o_put"
    /\ bufferPool' = poolPut(bufferPool, putBuffer(fr[t].buf))
    /\ fr' = [fr EXCEPT ![t] = Return([@ EXCEPT !.released = @ + 1], @.err)]
    /\ pc' = [pc EXCEPT ![t] = "ret"]
    /\ UNCHANGED <<logger, calls, sinkLog, passed, hist, outVer, outDone, inputs>>

\* ------------------------------------------------------------------------
\* SetOutput (src/log.go:57-62)
\* ------------------------------------------------------------------------
\* the call starts; emitter calls in flight on l note it
SetOutput(t, l) ==
    /\ CanCall(t, l)
    /\ \E w \in Inputs.sinks : fr' = [u \in DOMAIN fr |->
                IF u = t THEN [StartFrame(t, l, "SetOutput") EXCEPT !.w = w]
                ELSE IF fr[u].l = l /\ pc[u] \in EmitterPcs
                  THEN IF w = Discard
                         THEN [fr[u] EXCEPT !.discardSetSince = TRUE]
                         ELSE [fr[u] EXCEPT !.sinkSetSince = TRUE]
                  ELSE fr[u]]
    /\ pc' = [pc EXCEPT ![t] = "so_lock"]
    /\ calls' = [calls EXCEPT ![t] = @ + 1]
    /\ UNCHANGED <<logger, bufferPool, sinkLog, passed, hist, outVer, outDone, inputs>>

\* SetOutput without the Lock of line 58
so_lock_absent(t) ==
    /\ pc[t] = "so_lock"
    /\ fr' = [fr EXCEPT ![t].locks = @ + 1]
    /\ pc' = [pc EXCEPT ![t] = "so_out"]
    /\ UNCHANGED <<logger, bufferPool, calls, sinkLog, passed, hist, outVer, outDone, inputs>>

\* line 58
so_lock(t) ==
    /\ pc[t] = "so_lock"
    /\ outMu[fr[t].l] = 0
    /\ outMu' = [outMu EXCEPT ![fr[t].l] = t]
    /\ fr' = [fr EXCEPT ![t].locks = @ + 1]
    /\ pc' = [pc EXCEPT ![t] = "so_out"]
    /\ UNCHANGED <<config, bufferPool, calls, sinkLog, passed, hist, outVer, outDone, inputs>>

\* line 60 with out a variable of the package: every logger gets the sink
so_out_shared(t) ==
    /\ pc[t] = "so_out"
    /\ out' = [l \in DOMAIN out |-> fr[t].w]
    /\ hist' = [hist EXCEPT ![fr[t].l].out = fr[t].w]
    /\ outVer' = [outVer EXCEPT ![fr[t].l] = @ + 1]
    /\ pc' = [pc EXCEPT ![t] = "so_disc"]
    /\ UNCHANGED <<outMu, prefix, flag, isDiscard, minLevel, bufferPool, fr, calls,
                   sinkLog, passed, outDone, inputs>>

\* line 60
so_out(t) ==
    /\ pc[t] = "so_out"
    /\ out' = [out EXCEPT ![fr[t].l] = fr[t].w]
    /\ hist' = [hist EXCEPT ![fr[t].l].out = fr[t].w]
    /\ outVer' = [outVer EXCEPT ![fr[t].l] = @ + 1]
    /\ pc' = [pc EXCEPT ![t] = "so_disc"]
    /\ UNCHANGED <<outMu, prefix, flag, isDiscard, minLevel, bufferPool, fr, calls,
                   sinkLog, passed, outDone, inputs>>

\* line 61
so_disc(t) ==
    /\ pc[t] = "so_disc"
    /\ isDiscard' = [isDiscard EXCEPT ![fr[t].l] = isDiscardSink(fr[t].w)]
    /\ pc' = [pc EXCEPT ![t] = "so_unlock"]
    /\ UNCHANGED <<out, outMu, prefix, flag, minLevel, bufferPool, fr, calls,
                   sinkLog, passed, hist, outVer, outDone, inputs>>

\* SetOutput without the deferred Unlock of line 59
so_unlock_absent(t) ==
    /\ pc[t] = "so_unlock"
    /\ outDone' = [outDone EXCEPT ![fr[t].l] = outVer[fr[t].l]]
    /\ pc' = [pc EXCEPT ![t] = "ret"]
    /\ UNCHANGED <<logger, bufferPool, fr, calls, sinkLog, passed, hist, outVer, inputs>>

\* line 59, deferred; then the call returns
so_unlock(t) ==
    /\ pc[t] = "so_unlock"
    /\ outMu' = [outMu EXCEPT ![fr[t].l] = 0]
    /\ outDone' = [outDone EXCEPT ![fr[t].l] = outVer[fr[t].l]]
    /\ pc' = [pc EXCEPT ![t] = "ret"]
    /\ UNCHANGED <<config, bufferPool, fr, calls, sinkLog, passed, hist, outVer, inputs>>

\* ------------------------------------------------------------------------
\* Writer (src/log.go:249-253)
\* ------------------------------------------------------------------------
Writer(t, l) ==
    /\ CanCall(t, l)
    /\ fr' = [fr EXCEPT ![t] = StartFrame(t, l, "Writer")]
    /\ pc' = [pc EXCEPT ![t] = "w_lock"]
    /\ calls' = [calls EXCEPT ![t] = @ + 1]
    /\ UNCHANGED <<logger, bufferPool, sinkLog, passed, hist, outVer, outDone, inputs>>

\* line 250
w_lock(t) ==
    /\ pc[t] = "w_lock"
    /\ outMu[fr[t].l] = 0
    /\ outMu' = [outMu EXCEPT ![fr[t].l] = t]
    /\ fr' = [fr EXCEPT ![t].locks = @ + 1]
    /\ pc' = [pc EXCEPT ![t] = "w_read"]
    /\ UNCHANGED <<config, bufferPool, calls, sinkLog, passed, hist, outVer, outDone, inputs>>

\* line 252: the result l.out is evaluated
w_read(t) ==
    /\ pc[t] = "w_read"
    /\ fr' = [fr EXCEPT ![t].ret = out[fr[t].l], ![t].rv = outVer[fr[t].l],
                         ![t].seen = hist[fr[t].l].out]
    /\ pc' = [pc EXCEPT ![t] = "w_unlock"]
    /\ UNCHANGED <<logger, bufferPool, calls, sinkLog, passed, hist, outVer, outDone, inputs>>

\* line 251, deferred; then the call returns
w_unlock(t) ==
    /\ pc[t] = "w_unlock"
    /\ outMu' = [outMu EXCEPT ![fr[t].l] = 0]
    /\ pc' = [pc EXCEPT ![t] = "ret"]
    /\ UNCHANGED <<config, bufferPool, fr, calls, sinkLog, passed, hist, outVer, outDone, inputs>>

\* ------------------------------------------------------------------------
\* The atomic setters and getters (src/log.go:222-247): one step each
\* ------------------------------------------------------------------------
Called(t, f) ==
    /\ fr' = [fr EXCEPT ![t] = f]
    /\ pc' = [pc EXCEPT ![t] = "ret"]
    /\ calls' = [calls EXCEPT ![t] = @ + 1]

\* lines 226-228
SetFlags(t, l) ==
    /\ CanCall(t, l)
    /\ \E x \in Inputs.flags :
        /\ flag' = [flag EXCEPT ![l] = storeFlags(x)]
        /\ hist' = [hist EXCEPT ![l].flag = x]
    /\ Called(t, StartFrame(t, l, "SetFlags"))
    /\ UNCHANGED <<out, outMu, prefix, isDiscard, minLevel, bufferPool, sinkLog,
                   passed, outVer, outDone, inputs>>

\* lines 222-224
Flags(t, l) ==
    /\ CanCall(t, l)
    /\ Called(t, [StartFrame(t, l, "Flags") EXCEPT !.ret = loadFlags(flag[l]),
                                                   !.seen = hist[l].flag])
    /\ UNCHANGED <<logger, bufferPool, sinkLog, passed, hist, outVer, outDone, inputs>>

\* lines 237-239
SetPrefix(t, l) ==
    /\ CanCall(t, l)
    /\ \E p \in Inputs.prefixes :
        /\ prefix' = [prefix EXCEPT ![l] = storePrefix(p)]
        /\ hist' = [hist EXCEPT ![l].prefix = p]
    /\ Called(t, StartFrame(t, l, "SetPrefix"))
    /\ UNCHANGED <<out, outMu, flag, isDiscard, minLevel, bufferPool, sinkLog,
                   passed, outVer, outDone, inputs>>

\* lines 230-235
Prefix(t, l) ==
    /\ CanCall(t, l)
    /\ Called(t, [StartFrame(t, l, "Prefix") EXCEPT !.ret = loadPrefix(prefix[l]),
                                                    !.seen = hist[l].prefix])
    /\ UNCHANGED <<logger, bufferPool, sinkLog, passed, hist, outVer, outDone, inputs>>

\* lines 245-247
SetLevel(t, l) ==
    /\ CanCall(t, l)
    /\ \E v \in Inputs.levels :
        /\ minLevel' = [minLevel EXCEPT ![l] = storeLevel(v)]
        /\ hist' = [hist EXCEPT ![l].level = v]
    /\ Called(t, StartFrame(t, l, "SetLevel"))
    /\ UNCHANGED <<out, outMu, prefix, flag, isDiscard, bufferPool, sinkLog,
                   passed, outVer, outDone, inputs>>

\* lines 241-243
Level(t, l) ==
    /\ CanCall(t, l)
    /\ Called(t, [StartFrame(t, l, "Level") EXCEPT !.ret = loadLevel(minLevel[l]),
                                                   !.seen = hist[l].level])
    /\ UNCHANGED <<logger, bufferPool, sinkLog, passed, hist, outVer, outDone, inputs>>

\* ------------------------------------------------------------------------
\* The specifications
\* ------------------------------------------------------------------------
Next ==
    \E t \in Threads :
        \/ \E l \in LoggerIds :
            \/ Debug(t, l) \/ Info(t, l) \/ Error(t, l)
            \/ SetOutput(t, l) \/ Writer(t, l)
            \/ SetFlags(t, l) \/ Flags(t, l)
            \/ SetPrefix(t, l) \/ Prefix(t, l)
            \/ SetLevel(t, l) \/ Level(t, l)
        \/ o_disc(t) \/ o_prefix(t) \/ o_flag(t) \/ o_get(t) \/ o_render(t)
        \/ o_lock(t) \/ o_write(t) \/ o_wret(t) \/ o_unlock(t) \/ o_put(t)
        \/ so_lock(t) \/ so_out(t) \/ so_disc(t) \/ so_unlock(t)
        \/ w_lock(t) \/ w_read(t) \/ w_unlock(t)

Init == InitWith("Spec")

Spec == Init /\ [][Next]_vars

InitFmt == InitWith("SpecFmt")

SpecFmt == InitFmt /\ [][Next]_vars

InitCfg == InitWith("SpecCfg")

SpecCfg == InitCfg /\ [][Next]_vars

\* the steps of thread t that wait for nothing
Proceed(t) ==
    \/ o_disc(t) \/ o_prefix(t) \/ o_flag(t) \/ o_get(t) \/ o_render(t)
    \/ o_write(t) \/ o_wret(t) \/ o_unlock(t) \/ o_put(t)
    \/ so_out(t) \/ so_disc(t) \/ so_unlock(t)
    \/ w_read(t) \/ w_unlock(t)

\* the steps of thread t that wait for outMu (lines 58, 198, 250)
Acquire(t) == o_lock(t) \/ so_lock(t) \/ w_lock(t)

\* the scheduler runs every thread that can run, Write always returns, and
\* Lock returns once the lock stays free
Fairness == \A t \in Threads : WF_vars(Proceed(t) \/ Acquire(t))

InitLive == InitWith("SpecLive")

SpecLive == InitLive /\ [][Next]_vars /\ Fairness

InitTwo == InitWith("SpecTwo")

InitPool == InitWith("SpecPool")

SpecPool == InitPool /\ [][Next]_vars

SpecTwo == InitTwo /\ [][Next]_vars

\* ------------------------------------------------------------------------
\* Properties
\* ------------------------------------------------------------------------
IsEmitter(t) == fr[t].op \in EmitterOps
Returned(t) == pc[t] = "ret"
\* the Write calls served for the current call of thread t
WritesOf(t) == {e \in sinkLog : e.by = t /\ e.seq = fr[t].seq}

\* C1: a Debug/Info/Error call whose level is below the minimum level it
\* read returns at once with a nil error: it acquires no buffer, formats
\* nothing, never takes the sink lock and causes no Write, whatever setters
\* ran before or run meanwhile.
C1_FilteredCallDoesNothing ==
    \A t \in Threads :
        (IsEmitter(t) /\ fr[t].level < fr[t].minRead) =>
            /\ Returned(t)
            /\ fr[t].err = NilError
            /\ fr[t].acquired = 0
            /\ ~fr[t].formatted
            /\ fr[t].locks = 0
            /\ fr[t].nwrites = 0
            /\ WritesOf(t) = {}
            /\ outMu[fr[t].l] # t

\* an Info call filtered out by a minimum level that SetLevel raised to ERROR
C1_Witness ==
    \E t \in Threads :
        /\ fr[t].op = "Info" /\ Returned(t)
        /\ fr[t].minRead = ERROR
        /\ hist[fr[t].l].level = ERROR

\* C2: concurrent passing calls give one Write call each, carrying the
\* whole line of the call; at most one thread is inside Write of a logger's
\* sink; when all N threads have made their M calls and all passed, the
\* sinks have served exactly N*M Write calls.
C2_OneWholeLinePerCall ==
    /\ \A l \in Loggers :
         Cardinality({t \in Threads : fr[t].l = l /\ pc[t] \in {"o_write", "o_wret", "o_unlock"}}) <= 1
    /\ \A e \in sinkLog :
         /\ <<e.by, e.seq>> \in passed
         /\ Len(e.data) > 0 /\ Last(e.data) = NL
         /\ \A e2 \in sinkLog : (e2.by = e.by /\ e2.seq = e.seq) => e2 = e
         /\ fr[e.by].seq = e.seq =>
              /\ fr[e.by].formatted
              /\ e.data = fr[e.by].buf.b
    /\ (\A t \in Threads : pc[t] \notin PassedPcs) =>
         {<<e.by, e.seq>> : e \in sinkLog} = passed
    /\ ( /\ \A t \in Threads : pc[t] \in {"idle", "ret"}
         /\ Cardinality(passed) = TotalCalls ) =>
         Cardinality(sinkLog) = TotalCalls

\* every thread has made its calls, all of them passed and were written to
\* sink B without failure
C2_Witness ==
    /\ \A t \in Threads : calls[t] >= 1 /\ Returned(t)
    /\ Cardinality(sinkLog) = TotalCalls
    /\ \A e \in sinkLog : e.sink = "B" /\ e.ok

\* a value that reports a failure to the caller
IsError(r) == r \notin {NoValue, NilError}
\* the Write of the current call of thread t failed
WriteFailed(t) == \E e \in WritesOf(t) : ~e.ok

\* C3 (as claimed): Debug, Info and Error hand their caller an error that
\* is non-nil exactly when the sink write of the call failed.
C3_CallerGetsWriteError ==
    \A t \in Threads :
        (IsEmitter(t) /\ Returned(t)) => (IsError(fr[t].ret) <=> WriteFailed(t))

\* the logger's fields are what the latest setter calls (or New) stored
ConfigAsSet(l) ==
    /\ out[l] = hist[l].out
    /\ prefix[l] = storePrefix(hist[l].prefix)
    /\ flag[l] = storeFlags(hist[l].flag)
    /\ minLevel[l] = storeLevel(hist[l].level)
    /\ Quiet(l) => (isDiscard[l] <=> out[l] = Discard)

\* C4: a failed Write poisons nothing: when the failing call has returned
\* it has written once, holds no lock and has released its buffer; the
\* fields hold what the setters stored; and every call that passed the
\* gates, also one after a failure, makes exactly one Write under one lock.
C4_NoPoisonedState ==
    /\ \A l \in Loggers : ConfigAsSet(l)
    /\ \A t \in Threads :
        (IsEmitter(t) /\ Returned(t)) =>
            /\ outMu[fr[t].l] # t
            /\ fr[t].released = fr[t].acquired
            /\ IF <<t, fr[t].seq>> \in passed
                 THEN /\ fr[t].nwrites = 1 /\ fr[t].locks = 1
                      /\ Cardinality(WritesOf(t)) = 1
                      /\ fr[t].err = (IF WriteFailed(t) THEN WriteError ELSE NilError)
                 ELSE fr[t].nwrites = 0 /\ fr[t].locks = 0
    /\ (\A t \in Threads : pc[t] \in {"idle", "ret"}) => \A l \in Loggers : outMu[l] = 0

\* one call's Write failed and returned; a call that started after that
\* return has written successfully
C4_Witness ==
    \E t, u \in Threads :
        /\ IsEmitter(t) /\ Returned(t) /\ fr[t].err = WriteError
        /\ \E e \in WritesOf(t) : ~e.ok
        /\ IsEmitter(u) /\ Returned(u) /\ fr[u].afterFail
        /\ fr[u].err = NilError
        /\ \E e \in WritesOf(u) : e.ok

RECURSIVE TrailingNL(_)
TrailingNL(s) ==
    IF Len(s) > 0 /\ Last(s) = NL THEN 1 + TrailingNL(SubSeq(s, 1, Len(s) - 1)) ELSE 0

\* the number of newlines the last argument of a call ends with
ArgNewlines(v) == IF Len(v) = 0 THEN 0 ELSE TrailingNL(Last(v))

\* C6 (as claimed): every line written ends with exactly one newline,
\* whether or not the caller's last argument ended with one.
C6_ExactlyOneNewline == \A e \in sinkLog : TrailingNL(e.data) = 1

\* C6 (amended): every line written ends with one newline more than the
\* caller's last argument ends with: exactly one when the argument does not
\* end with a newline, two when it ends with one.
C6_OneNewlineAfterMessage ==
    \A e \in sinkLog :
        fr[e.by].seq = e.seq => TrailingNL(e.data) = 1 + ArgNewlines(fr[e.by].v)

\* the line of a message that ends with a newline has been written
C6_Witness ==
    \E e \in sinkLog :
        /\ fr[e.by].seq = e.seq /\ fr[e.by].v = MsgHiNL
        /\ TrailingNL(e.data) = 2

Getters == {"Flags", "Prefix", "Level", "Writer"}

\* C7: what a getter returns is the argument of the latest setter call on
\* its field, or of New when there was none: in every state the load of
\* each field gives back the value last stored, and a getter that has
\* returned with no store to its field since it read returned that value.
C7_RoundTrip ==
    /\ \A l \in Loggers :
        /\ loadFlags(flag[l]) = hist[l].flag
        /\ loadPrefix(prefix[l]) = hist[l].prefix
        /\ loadLevel(minLevel[l]) = hist[l].level
        /\ out[l] = hist[l].out
    /\ \A t \in Threads :
        (Returned(t) /\ fr[t].op \in Getters) =>
            LET h == hist[fr[t].l]
                now == CASE fr[t].op = "Flags" -> h.flag
                         [] fr[t].op = "Prefix" -> h.prefix
                         [] fr[t].op = "Level" -> h.level
                         [] fr[t].op = "Writer" -> h.out
            IN  fr[t].seen = now => fr[t].ret = now

\* SetLevel(255) has returned and a later Level() has returned 255
C7_Witness ==
    \E t, u \in Threads :
        /\ fr[u].op = "SetLevel" /\ Returned(u)
        /\ fr[t].op = "Level" /\ Returned(t) /\ fr[t].ret = 255
        /\ hist[fr[t].l].level = 255

\* ------------------------------------------------------------------------
\* The layout of a line, written down from its description
\* ------------------------------------------------------------------------
\* n in exactly w decimal digits, for n < 10^w
Pad(n, w) == [k \in 1..w |-> DigitChar((n \div Pow(10, w - k)) % 10)]
\* the number of decimal digits of n
Width(n) == CHOOSE w \in 1..10 : n < Pow(10, w) /\ (w = 1 \/ n >= Pow(10, w - 1))
\* n without padding
Dec(n) == Pad(n, Width(n))
\* n zero-padded to at least w digits
Field(n, w) == IF n < Pow(10, w) THEN Pad(n, w) ELSE Dec(n)

TagOf(op) ==
    CASE op = "Debug" -> <<"[", "D", "E", "B", "U", "G", "]", " ">>
      [] op = "Info"  -> <<"[", "I", "N", "F", "O", "]", " ", " ">>
      [] op = "Error" -> <<"[", "E", "R", "R", "O", "R", "]", " ">>

\* the date and clock segment for the clock fields c
StampOf(c, fl) ==
    (IF HasBit(fl, Ldate)
       THEN Field(c.year, 4) \o <<"/">> \o Field(c.month, 2) \o <<"/">>
            \o Field(c.day, 2) \o <<" ">>
       ELSE <<>>)
    \o
    (IF HasBit(fl, Ltime) \/ HasBit(fl, Lmicroseconds)
       THEN Field(c.hour, 2) \o <<":">> \o Field(c.min, 2) \o <<":">> \o Field(c.sec, 2)
            \o (IF HasBit(fl, Lmicroseconds)
                  THEN <<".">> \o Field(c.nsec \div 1000, 6) ELSE <<>>)
            \o <<" ">>
       ELSE <<>>)

\* the line of the call in frame f when its file is rendered as seg
LineOf(f, seg) ==
    f.prefix \o TagOf(f.op)
    \o StampOf(IF HasBit(f.flag, LUTC) THEN f.now.utc ELSE f.now.loc, f.flag)
    \o (IF HasBit(f.flag, Llongfile) \/ HasBit(f.flag, Lshortfile)
          THEN seg \o <<":">> \o Dec(f.line) \o <<":", " ">>
          ELSE <<>>)
    \o Appendln(<<>>, f.v)

\* the endings of a path: the path itself and what follows any of its bytes
Suffixes(file) == {From(file, i) : i \in 0..Len(file)}

\* frames holding a rendered line
Rendered(t) == IsEmitter(t) /\ fr[t].formatted

\* C8: for every combination of the flags the line is the prefix, the level
\* tag, the date and clock fields the flags ask for with their fixed widths
\* and separators, the file (the caller's path or an ending of it), a
\* colon, the unpadded line number, a colon and space, and the message.
C8_LineLayout ==
    /\ \A t \in Threads :
        Rendered(t) => \E seg \in Suffixes(fr[t].file) : fr[t].buf.b = LineOf(fr[t], seg)
    /\ \A e \in sinkLog :
        fr[e.by].seq = e.seq =>
            \E seg \in Suffixes(fr[e.by].file) : e.data = LineOf(fr[e.by], seg)

\* a line with date, microseconds, UTC and file has been written for a
\* three-digit year
C8_Witness ==
    \E e \in sinkLog :
        LET f == fr[e.by]
        IN  /\ f.seq = e.seq
            /\ f.flag = Ldate + Lmicroseconds + LUTC + Llongfile
            /\ f.now = T3 /\ f.file = FileDeep /\ f.prefix = PrefixApp
            /\ e.data = LineOf(f, FileDeep)

\* what follows the last "/" of a path, the path itself when it has none
BaseName(file) ==
    LET seps == {i \in 1..Len(file) : file[i] = "/"}
    IN  IF seps = {} THEN file
        ELSE SubSeq(file, (CHOOSE i \in seps : \A j \in seps : j <= i) + 1, Len(file))

\* C9 (as claimed): with the short-file flag the file is rendered as what
\* follows the last "/" of the caller's path, wherever that "/" is; with
\* the long-file flag alone the path is rendered as it is.
C9_FileRendering ==
    \A t \in Threads :
        (Rendered(t) /\ HasAny(fr[t].flag, {Lshortfile, Llongfile})) =>
            fr[t].buf.b = LineOf(fr[t], IF HasBit(fr[t].flag, Lshortfile)
                                          THEN BaseName(fr[t].file) ELSE fr[t].file)

\* C10: a getter returns the whole argument of one store to its field
\* (by New or by a setter), never a mixture; the store Writer reads is not
\* older than the latest one whose SetOutput had returned when Writer
\* started; and the fields hold the latest stored values.
C10_Linearizable ==
    /\ \A l \in Loggers :
        /\ flag[l] = storeFlags(hist[l].flag)
        /\ loadPrefix(prefix[l]) = hist[l].prefix
        /\ minLevel[l] = storeLevel(hist[l].level)
        /\ out[l] = hist[l].out
        /\ outDone[l] <= outVer[l]
        /\ Quiet(l) => outDone[l] = outVer[l]
    /\ \A t \in Threads :
        (fr[t].op \in Getters /\ (Returned(t) \/ pc[t] = "w_unlock")) =>
            /\ fr[t].ret = fr[t].seen
            /\ fr[t].op = "Writer" =>
                 /\ fr[t].done0 <= fr[t].rv
                 /\ fr[t].rv <= outVer[fr[t].l]

\* Writer started while a SetOutput was in flight and has returned the sink
\* that SetOutput stored afterwards
C10_Witness ==
    \E t, u \in Threads :
        /\ fr[t].op = "Writer" /\ Returned(t)
        /\ fr[t].rv = fr[t].done0 + 1
        /\ fr[u].op = "SetOutput" /\ fr[u].w = fr[t].ret /\ fr[t].ret # fr[t].out0

\* the fields of logger l, its lock included
FieldsOf(l) == <<out[l], outMu[l], prefix[l], flag[l], isDiscard[l], minLevel[l]>>

\* thread t takes a step in this transition
Steps(t) == pc'[t] # pc[t] \/ calls'[t] # calls[t]

\* C11: two loggers share only the buffer pool: a step that changes a field
\* or the lock of a logger is a step of a call on that logger; a Write is
\* served by the sink of the logger the call is on, not by the sink of the
\* other logger when the two differ; and the bytes written are the line of
\* the writing call alone, also when its buffer held a line of the other
\* logger before.
C11_LoggersIsolated ==
    [][ /\ \A l \in Loggers :
            FieldsOf(l)' # FieldsOf(l) => \E t \in Threads : Steps(t) /\ fr'[t].l = l
        /\ \A e \in sinkLog' \ sinkLog :
            /\ Steps(e.by) /\ fr[e.by].l = e.l
            /\ e.sink = out[e.l]
            /\ \A l \in Loggers \ {e.l} : out[l] # out[e.l] => e.sink # out[l]
            /\ e.data = LineOf(fr[e.by], fr[e.by].file)
      ]_vars

\* a call on logger 2 has written its line to sink B from a buffer that a
\* call on logger 1 (sink A, the longer prefix) had used and released
C11_Witness ==
    \E t, u \in Threads :
        /\ IsEmitter(t) /\ Returned(t) /\ fr[t].l = 1
        /\ \E e \in WritesOf(t) : e.sink = "A" /\ e.l = 1
        /\ IsEmitter(u) /\ Returned(u) /\ fr[u].l = 2
        /\ \E e \in WritesOf(u) : e.sink = "B" /\ e.l = 2 /\ e.ok
        /\ fr[u].buf.cap > Len(fr[u].buf.b)
        /\ out[1] = "A" /\ out[2] = "B"

\* thread t is inside a call
InFlight(t) == pc[t] \notin {"idle", "ret"}
\* the positions at which a call waits for the lock, and those at which it
\* holds it
LockPcs == {"o_lock", "so_lock", "w_lock"}
HoldPcs == {"o_write", "o_wret", "o_unlock", "so_out", "so_disc", "so_unlock",
            "w_read", "w_unlock"}

\* C12: with fair scheduling and a Write that always returns, every call
\* of Debug/Info/Error, SetOutput and Writer returns; in no state are all
\* the calls in flight waiting; and the lock is held exactly by a call
\* between its Lock and its deferred Unlock, so it is free once that call
\* has returned.
C12_EveryCallReturns ==
    /\ [](\A l \in Loggers :
            /\ outMu[l] # 0 => (pc[outMu[l]] \in HoldPcs /\ fr[outMu[l]].l = l)
            /\ \A t \in Threads : (pc[t] \in HoldPcs /\ fr[t].l = l) => outMu[l] = t)
    /\ []((\E t \in Threads : InFlight(t)) =>
            \E t \in Threads : InFlight(t) /\ (pc[t] \in LockPcs => outMu[fr[t].l] = 0))
    /\ \A t \in Threads : InFlight(t) ~> Returned(t)

\* SetOutput waits for the lock while an emitter is inside a Write on the
\* sink that can fail
C12_Witness ==
    \E t, u \in Threads :
        /\ pc[t] = "so_lock" /\ pc[u] = "o_wret" /\ fr[u].sink = "B"
        /\ fr[t].l = fr[u].l /\ outMu[fr[t].l] = u

\* a SetOutput call on logger l holds the lock
SetOutputHolds(l) ==
    \E t \in Threads : pc[t] \in {"so_out", "so_disc", "so_unlock"} /\ fr[t].l = l

\* C13: whenever no SetOutput call holds the lock of a logger, its discard
\* hint is true exactly when its sink is the discard sink; and a step that
\* changes the hint is the store of line 61 by a SetOutput call that holds
\* the lock.
C13_DiscardHint ==
    /\ [](\A l \in Loggers : ~SetOutputHolds(l) => (isDiscard[l] <=> out[l] = Discard))
    /\ [][\A l \in Loggers :
            isDiscard'[l] # isDiscard[l] =>
                \E t \in Threads :
                    /\ pc[t] = "so_disc" /\ pc'[t] = "so_unlock"
                    /\ fr[t].l = l /\ fr[t].op = "SetOutput"
                    /\ outMu[l] = t
                    /\ isDiscard'[l] = (fr[t].w = Discard)]_vars

\* two SetOutput calls have returned, the later one installed the discard
\* sink, and the hint is set
C13_Witness ==
    \E l \in Loggers :
        /\ outDone[l] = 3 /\ outMu[l] = 0 /\ ~SetOutputHolds(l)
        /\ out[l] = Discard /\ isDiscard[l]

\* the positions of output before the Lock of line 198, and those of the
\* flush (Lock taken, Write, Unlock pending)
RenderPcs == {"o_disc", "o_prefix", "o_flag", "o_get", "o_render", "o_lock"}
FlushPcs == {"o_write", "o_wret", "o_unlock"}

\* C14: an emitter call holds the sink lock only while flushing: not while
\* it filters, acquires its buffer, resolves the caller or renders, and not
\* after its Unlock; so a SetOutput or Writer call that waits for the lock
\* held by an emitter waits for one that is in its flush.
C14_LockOnlyWhileFlushing ==
    /\ \A t \in Threads :
        IsEmitter(t) =>
            /\ pc[t] \in RenderPcs \cup {"o_put", "ret"} => outMu[fr[t].l] # t
            /\ pc[t] \in FlushPcs => outMu[fr[t].l] = t
    /\ \A t, u \in Threads :
        ( /\ pc[t] \in {"so_lock", "w_lock"}
          /\ outMu[fr[t].l] = u /\ IsEmitter(u) ) => pc[u] \in FlushPcs

\* both threads are rendering at once, and nobody holds the lock
C14_Witness ==
    /\ pc[1] = "o_render" /\ pc[2] = "o_render"
    /\ fr[1].l = fr[2].l /\ outMu[fr[1].l] = 0

\* the positions of output at which the call owns a buffer
OwnerPcs == {"o_render", "o_lock", "o_write", "o_wret", "o_unlock", "o_put"}

\* the buffers the current calls have acquired and not released
Outstanding(S) == Cardinality({t \in S : fr[t].acquired > fr[t].released})

\* C15: a call acquires at most one buffer and releases it exactly once,
\* before it returns, whether its Write succeeded or failed: a call owns a
\* buffer exactly from getBuffer to the deferred putBuffer; when no emitter
\* call is in flight no buffer is outstanding; and there are never more
\* buffers outstanding than calls in flight that passed the gates.
C15_BufferReleased ==
    /\ \A t \in Threads :
        /\ fr[t].acquired \in {0, 1} /\ fr[t].released \in {0, 1}
        /\ fr[t].released <= fr[t].acquired
        /\ (IsEmitter(t) /\ InFlight(t)) =>
              (fr[t].acquired > fr[t].released <=> pc[t] \in OwnerPcs)
        /\ (IsEmitter(t) /\ Returned(t)) =>
              /\ fr[t].released = fr[t].acquired
              /\ fr[t].acquired = (IF <<t, fr[t].seq>> \in passed THEN 1 ELSE 0)
        /\ ~IsEmitter(t) => fr[t].acquired = 0
    /\ (\A t \in Threads : ~(IsEmitter(t) /\ InFlight(t))) => Outstanding(Threads) = 0
    /\ Outstanding(Threads) <=
         Cardinality({t \in Threads : InFlight(t) /\ <<t, fr[t].seq>> \in passed})

\* a call whose Write failed has returned, having acquired one buffer and
\* released it
C15_Witness ==
    \E t \in Threads :
        /\ IsEmitter(t) /\ Returned(t) /\ WriteFailed(t)
        /\ fr[t].acquired = 1 /\ fr[t].released = 1

\* C16: in one emitter call the Lock comes first, then the Write of the
\* whole buffer, then the Unlock, then putBuffer: a Write is served to the
\* holder of the lock and carries its whole buffer; the lock is released
\* by a call whose Write has returned and whose buffer is still its own;
\* and a buffer enters the pool only in the putBuffer step of a call that
\* has written and no longer holds the lock, so never while its owner
\* renders into it or writes it.
C16_FlushOrder ==
    /\ [](\A t \in Threads :
            /\ fr[t].nwrites <= fr[t].locks
            /\ fr[t].released <= fr[t].nwrites
            /\ (IsEmitter(t) /\ fr[t].released = 1) =>
                  (WritesOf(t) # {} /\ outMu[fr[t].l] # t)
            /\ (IsEmitter(t) /\ pc[t] \in {"o_render", "o_lock", "o_write", "o_wret", "o_unlock"}) =>
                  fr[t].released = 0)
    /\ [][
            /\ \A e \in sinkLog' \ sinkLog :
                /\ outMu[e.l] = e.by /\ fr[e.by].locks = 1
                /\ e.data = fr[e.by].buf.b /\ fr[e.by].released = 0
            /\ \A t \in Threads :
                (IsEmitter(t) /\ outMu[fr[t].l] = t /\ outMu'[fr[t].l] # t) =>
                    (WritesOf(t) # {} /\ fr'[t].released = 0)
            /\ \A t \in Threads :
                fr'[t].released > fr[t].released =>
                    /\ pc[t] = "o_put" /\ pc'[t] = "ret"
                    /\ WritesOf(t) # {} /\ outMu[fr[t].l] # t
                    /\ bufferPool' \subseteq bufferPool \cup {putBuffer(fr[t].buf)}
            /\ ~(bufferPool' \subseteq bufferPool) =>
                    \E t \in Threads : pc[t] = "o_put" /\ pc'[t] = "ret"
      ]_vars

\* a call has locked, written, unlocked and returned, and its buffer is in
\* the pool
C16_Witness ==
    \E t \in Threads :
        /\ IsEmitter(t) /\ Returned(t)
        /\ fr[t].locks = 1 /\ fr[t].nwrites = 1 /\ fr[t].released = 1
        /\ outMu[fr[t].l] = 0
        /\ putBuffer(fr[t].buf) \in bufferPool

\* C17: every buffer in the pool has a capacity of at most 65536; a buffer
\* released with a larger capacity goes back with capacity zero (and no
\* bytes), one released with a capacity of at most 65536, 65536 itself
\* included, goes back with its capacity.
C17_PoolCapacityBound ==
    /\ [](\A p \in bufferPool : p.cap <= 65536 /\ Len(p.b) <= p.cap)
    /\ [][\A t \in Threads :
            fr'[t].released > fr[t].released =>
                \A p \in bufferPool' \ bufferPool :
                    IF fr[t].buf.cap > 65536
                      THEN p.cap = 0 /\ p.b = <<>>
                      ELSE p.cap = fr[t].buf.cap]_vars

\* one call has released a buffer of capacity 65537 and returned, and a
\* later one a buffer of capacity 65536, which is in the pool
C17_Witness ==
    \E t, u \in Threads :
        /\ IsEmitter(t) /\ Returned(t) /\ fr[t].released = 1 /\ fr[t].buf.cap = 65537
        /\ IsEmitter(u) /\ Returned(u) /\ fr[u].released = 1 /\ fr[u].buf.cap = 65536
        /\ fr[u].buf \in bufferPool

\* C18: a buffer has length zero when output gets it, whatever the pool
\* held in it, and the bytes of every Write are the line of the writing
\* call alone: its prefix, tag, stamp, file and line, and message.
C18_BufferStartsEmpty ==
    /\ [](\A t \in Threads :
            (IsEmitter(t) /\ pc[t] = "o_render") => Len(fr[t].buf.b) = 0)
    /\ [][\A e \in sinkLog' \ sinkLog :
            \E seg \in Suffixes(fr[e.by].file) : e.data = LineOf(fr[e.by], seg)]_vars

\* a call has got, with length zero, the buffer in which the call before
\* it left its line
C18_Witness ==
    \E t, u \in Threads :
        /\ IsEmitter(t) /\ pc[t] = "o_render"
        /\ fr[t].buf.b = <<>> /\ fr[t].buf.cap > 0
        /\ IsEmitter(u) /\ Returned(u) /\ fr[u].released = 1
        /\ Len(fr[u].buf.b) > 0 /\ fr[t].buf.cap = fr[u].buf.cap
        /\ bufferPool = {}

\* C19: with SetOutput running beside the emitters, a call makes at most
\* one Write, with its whole buffer, on one sink: the one installed when it
\* took the lock, which stays installed while it holds the lock.  That sink
\* is the argument of the latest store to out, and every SetOutput that
\* stored has returned: no Write is invoked on a sink that a returned
\* SetOutput replaced, also by a call that passed the gates before.
C19_WriteToInstalledSink ==
    /\ [](\A t \in Threads :
            /\ fr[t].nwrites <= 1 /\ Cardinality(WritesOf(t)) <= fr[t].nwrites
            /\ (IsEmitter(t) /\ pc[t] \in {"o_wret", "o_unlock"}) =>
                  fr[t].sink = out[fr[t].l])
    /\ [][ \A t \in Threads :
            /\ (IsEmitter(t) /\ outMu[fr[t].l] = t /\ outMu'[fr[t].l] = t) =>
                  out'[fr[t].l] = out[fr[t].l]
            /\ fr'[t].nwrites > fr[t].nwrites =>
                  /\ outMu[fr[t].l] = t
                  /\ fr'[t].sink = out[fr[t].l]
                  /\ fr'[t].sink = hist[fr[t].l].out
                  /\ outDone[fr[t].l] = outVer[fr[t].l]
            /\ \A e \in sinkLog' \ sinkLog :
                  e.by = t => (e.sink = fr[t].sink /\ e.data = fr[t].buf.b)
      ]_vars

\* a call that started on sink B and passed the gates has made its Write
\* on the discard sink, which a SetOutput installed meanwhile
C19_Witness ==
    \E t, u \in Threads :
        /\ IsEmitter(t) /\ Returned(t) /\ fr[t].out0 = "B" /\ fr[t].quiet0
        /\ \E e \in WritesOf(t) : e.sink = Discard
        /\ fr[u].op = "SetOutput" /\ fr[u].w = Discard /\ Returned(u)

\* the positions of output after the prefix was read, and after the flags
\* were read
PrefixReadPcs == PassedPcs \ {"o_prefix"}
FlagReadPcs == PassedPcs \ {"o_prefix", "o_flag"}

\* C20: an emitter call reads the minimum level, the prefix and the flags
\* once each, each read giving what the field holds at that moment of the
\* call, and keeps the values to its end whatever the setters store
\* meanwhile; the line rendered and written is built from that one prefix
\* and that one flags value; and it has the file and line segment exactly
\* when the call resolved its caller.
C20_PerCallSnapshot ==
    /\ [](\A t \in Threads :
            Rendered(t) =>
                /\ fr[t].resolved <=> HasAny(fr[t].flag, {Lshortfile, Llongfile})
                /\ \E seg \in Suffixes(fr[t].file) : fr[t].buf.b = LineOf(fr[t], seg))
    /\ [][ \A t \in Threads :
            /\ (calls'[t] > calls[t] /\ fr'[t].op \in EmitterOps) =>
                  fr'[t].minRead = minLevel[fr'[t].l]
            /\ (IsEmitter(t) /\ InFlight(t)) => fr'[t].minRead = fr[t].minRead
            /\ (pc[t] = "o_prefix" /\ pc'[t] # "o_prefix") =>
                  fr'[t].prefix = loadPrefix(prefix[fr[t].l])
            /\ pc[t] \in PrefixReadPcs => fr'[t].prefix = fr[t].prefix
            /\ (pc[t] = "o_flag" /\ pc'[t] # "o_flag") =>
                  fr'[t].flag = loadFlags(flag[fr[t].l])
            /\ pc[t] \in FlagReadPcs =>
                  /\ fr'[t].flag = fr[t].flag
                  /\ fr'[t].resolved = fr[t].resolved
                  /\ fr'[t].file = fr[t].file /\ fr'[t].line = fr[t].line
            /\ \A e \in sinkLog' \ sinkLog :
                  e.by = t => \E seg \in Suffixes(fr[t].file) : e.data = LineOf(fr[t], seg)
      ]_vars

\* a call has written a line without file and line, built from the prefix
\* and the flags it read, while the logger's flags now ask for the file
C20_Witness ==
    \E t \in Threads :
        /\ IsEmitter(t) /\ pc[t] = "o_unlock" /\ WritesOf(t) # {}
        /\ fr[t].flag = LstdFlags /\ ~fr[t].resolved
        /\ flag[fr[t].l] = Lshortfile
        /\ \E e \in WritesOf(t) : e.data = LineOf(fr[t], <<>>)

====
